---- MODULE Spec2Model ----
(***************************************************************************)
(* Model of the text-search dashboard (src/app.py, src/streamlit_app.py):  *)
(* load_data behind st.cache, search_dataframe (pandas str.contains),      *)
(* generate_barplot (Altair aggregate / window rank / filter) and the      *)
(* script run of the page.                                                 *)
(*                                                                         *)
(* A text is a sequence of one-character strings.  A DataFrame is a record *)
(* [columns, rows]; every row carries its index label, as pandas rows do.  *)
(***************************************************************************)
EXTENDS Integers, Sequences, FiniteSets, TLC

VARIABLES
    file,           \* the rows of the TSV file at DATA_FILEPATH
    cache,          \* st.cache's store for load_data: path -> DataFrame
    script,         \* which page runs: "app.py" or "streamlit_app.py"
    df,             \* the DataFrame bound to the name df
    column,         \* search_dataframe's column argument
    search_str,     \* the search string (text_query)
    results,        \* what the last search_dataframe call gave
    count_column,   \* generate_barplot's count_column argument
    top_n,          \* generate_barplot's top_n argument
    chart,          \* the bars of the chart, top to bottom
    pc,             \* where the caller or the script run stands
    submit_button,  \* st.form_submit_button's value in this run
    sess,           \* per session: its place inside the cached load_data call
    hist            \* counters of what has happened so far

vars == <<file, cache, script, df, column, search_str, results,
          count_column, top_n, chart, pc, submit_button, sess, hist>>

-----------------------------------------------------------------------------
(* Bounds of the model *)

MaxRows == 2       \* rows of the corpus file
MaxPatLen == 2     \* characters of a search string
MaxResults == 4    \* rows of a result set handed to generate_barplot
MaxTopN == 3       \* largest top_n tried
MaxCalls == 2      \* search calls one caller makes on a table
MaxRuns == 2       \* script runs of one session
MaxLoads == 2      \* load_data calls of one session
NumSessions == 2   \* sessions running the script at once
MaxPoints == 2     \* largest "Number of points in spiral" tried

-----------------------------------------------------------------------------
(* Texts and the corpus file *)

DATA_FILEPATH == "litcovid.export.all.tsv"

Columns == {"title_e", "journal"}

\* A column name the corpus does not have.
AbsentColumn == "abstract"

\* Titles and journals a row of the file may hold ("" is a missing field).
Titles == {<<>>, <<"A", "b">>, <<"a", ".">>, <<"b", "(">>}
Journals == {<<>>, <<"N">>, <<"S">>}

\* Characters a search string is made of.
PatChars == {"a", "A", "b", ".", "*", "("}

RawRows == [title_e : Titles, journal : Journals]

SeqsUpTo(S, n) == UNION {[1..k -> S] : k \in 0..n}

Files == SeqsUpTo(RawRows, MaxRows)
Patterns == SeqsUpTo(PatChars, MaxPatLen)

\* pandas' missing-value marker; no text equals it.
NaN == <<"NaN">>

NoFrame == [columns |-> {}, rows |-> <<>>]

\* pd.read_csv: one row per data line, labelled 0, 1, ...; an empty field is NaN.
read_csv(raw) ==
    [columns |-> Columns,
     rows |-> [i \in 1..Len(raw) |->
                 [index |-> i - 1,
                  title_e |-> IF raw[i].title_e = <<>> THEN NaN ELSE raw[i].title_e,
                  journal |-> IF raw[i].journal = <<>> THEN NaN ELSE raw[i].journal]]]

\* DataFrame.fillna(""): every NaN becomes the empty text.
fillna(frame) ==
    [columns |-> frame.columns,
     rows |-> [i \in 1..Len(frame.rows) |->
                 [index |-> frame.rows[i].index,
                  title_e |-> IF frame.rows[i].title_e = NaN THEN <<>> ELSE frame.rows[i].title_e,
                  journal |-> IF frame.rows[i].journal = NaN THEN <<>> ELSE frame.rows[i].journal]]]

\* A loader that forgets the fillna.
load_data_nofill(raw) == read_csv(raw)

\* The body of load_data: read_csv(...).fillna("").
load_data(raw) == fillna(read_csv(raw))

-----------------------------------------------------------------------------
(* Series.str.contains(pat, case=False): regex defaults to True, so the     *)
(* search string is compiled as a regular expression with re.IGNORECASE.   *)

Lower(c) ==
    CASE c = "A" -> "a"
      [] c = "B" -> "b"
      [] c = "N" -> "n"
      [] c = "S" -> "s"
      [] OTHER -> c

CaseFold(t) == [i \in 1..Len(t) |-> Lower(t[i])]

\* re.compile: an unclosed "(" and a "*" with nothing to repeat raise re.error.
ValidPattern(p) ==
    /\ \A i \in 1..Len(p) : p[i] # "("
    /\ \A i \in 1..Len(p) : p[i] = "*" => (i > 1 /\ p[i - 1] # "*")

\* One pattern atom against one character: "." is any character, a letter
\* matches regardless of case.
AtomMatch(a, c) == a = "." \/ Lower(a) = Lower(c)

RECURSIVE MatchHere(_, _)
RECURSIVE MatchStar(_, _, _)

\* Does the compiled pattern p match a prefix of t ?
MatchHere(p, t) ==
    IF p = <<>> THEN TRUE
    ELSE IF Len(p) >= 2 /\ p[2] = "*" THEN MatchStar(p[1], SubSeq(p, 3, Len(p)), t)
    ELSE t # <<>> /\ AtomMatch(p[1], t[1]) /\ MatchHere(Tail(p), Tail(t))

MatchStar(a, p, t) ==
    \/ MatchHere(p, t)
    \/ t # <<>> /\ AtomMatch(a, t[1]) /\ MatchStar(a, p, Tail(t))

\* regex.search(t) is not None: the pattern matches at some position of t.
re_search(p, t) ==
    \E i \in 1..(Len(t) + 1) : MatchHere(p, SubSeq(t, i, Len(t)))

RECURSIVE Reverse(_)
Reverse(s) == IF s = <<>> THEN <<>> ELSE Append(Reverse(Tail(s)), Head(s))

\* A search that returns the matching rows last-first.
search_dataframe_reversed(frame, col, s) ==
    IF col \notin frame.columns THEN [status |-> "KeyError", frame |-> NoFrame]
    ELSE IF ~ValidPattern(s) THEN [status |-> "re.error", frame |-> NoFrame]
    ELSE [status |-> "ok",
          frame |-> [columns |-> frame.columns,
                     rows |-> Reverse(SelectSeq(frame.rows,
                                        LAMBDA r : re_search(s, r[col])))]]

\* A search that answers an unknown column with an empty result.
search_dataframe_lenient(frame, col, s) ==
    IF col \notin frame.columns THEN [status |-> "ok", frame |-> NoFrame]
    ELSE IF ~ValidPattern(s) THEN [status |-> "re.error", frame |-> NoFrame]
    ELSE [status |-> "ok",
          frame |-> [columns |-> frame.columns,
                     rows |-> SelectSeq(frame.rows, LAMBDA r : re_search(s, r[col]))]]

\* search_dataframe: df.loc[df[column].str.contains(search_str, case=False)].
\* df[column] raises KeyError, re.compile raises re.error, and a mask holding
\* NaN (an element that is no text) makes df.loc raise ValueError.
search_dataframe(frame, col, s) ==
    IF col \notin frame.columns THEN [status |-> "KeyError", frame |-> NoFrame]
    ELSE IF ~ValidPattern(s) THEN [status |-> "re.error", frame |-> NoFrame]
    ELSE IF \E i \in 1..Len(frame.rows) : frame.rows[i][col] = NaN
         THEN [status |-> "ValueError", frame |-> NoFrame]
    ELSE [status |-> "ok",
          frame |-> [columns |-> frame.columns,
                     rows |-> SelectSeq(frame.rows, LAMBDA r : re_search(s, r[col]))]]

NoResult == [status |-> "none", frame |-> NoFrame]

-----------------------------------------------------------------------------
(* generate_barplot: the Vega-Lite pipeline of the chart.                   *)

\* Number of rows of the result set whose value at col is g.
CountOf(rows, col, g) == Cardinality({k \in 1..Len(rows) : rows[k][col] = g})

HasGroup(acc, g) == \E i \in 1..Len(acc) : acc[i].group = g

RECURSIVE AggFold(_, _, _)
AggFold(acc, rows, col) ==
    IF rows = <<>> THEN acc
    ELSE LET g == Head(rows)[col]
         IN  AggFold(IF HasGroup(acc, g)
                     THEN [i \in 1..Len(acc) |->
                             IF acc[i].group = g
                             THEN [acc[i] EXCEPT !.count = @ + 1]
                             ELSE acc[i]]
                     ELSE Append(acc, [group |-> g, count |-> 1, rank |-> 0]),
                     Tail(rows), col)

\* transform_aggregate(count='count()', groupby=[count_column]): one entry per
\* distinct value, created when the value is first met.
transform_aggregate(rows, col) == AggFold(<<>>, rows, col)

RECURSIVE InsertDescFlip(_, _)
InsertDescFlip(s, e) ==
    IF s = <<>> THEN <<e>>
    ELSE IF Head(s).count > e.count THEN <<Head(s)>> \o InsertDescFlip(Tail(s), e)
    ELSE <<e>> \o s

RECURSIVE SortFlipFold(_, _)
SortFlipFold(acc, s) ==
    IF s = <<>> THEN acc ELSE SortFlipFold(InsertDescFlip(acc, Head(s)), Tail(s))

\* A sort by count descending that puts a later equal entry first.
SortByCountDescUnstable(s) == SortFlipFold(<<>>, s)

RECURSIVE InsertDesc(_, _)
InsertDesc(s, e) ==
    IF s = <<>> THEN <<e>>
    ELSE IF Head(s).count >= e.count THEN <<Head(s)>> \o InsertDesc(Tail(s), e)
    ELSE <<e>> \o s

RECURSIVE SortFold(_, _)
SortFold(acc, s) ==
    IF s = <<>> THEN acc ELSE SortFold(InsertDesc(acc, Head(s)), Tail(s))

\* SortField('count', order='descending') and sort='-x': by count, largest
\* first.  Vega's comparators fall back on the order in which the entries were
\* created, so entries of equal count keep that order.
SortByCountDesc(s) == SortFold(<<>>, s)

\* A window that numbers the sorted entries 1, 2, 3, ... (row_number).
transform_window_rownumber(entries) ==
    LET sorted == SortByCountDesc(entries)
    IN  [i \in 1..Len(entries) |->
           [entries[i] EXCEPT !.rank =
               CHOOSE k \in 1..Len(sorted) : sorted[k].group = entries[i].group]]

RECURSIVE RankAt(_, _)
\* Vega's rank over the sorted entries: peers (equal count) share the rank of
\* the first of them, the next rank counts every entry before it.
RankAt(sorted, k) ==
    IF k > 1 /\ sorted[k].count = sorted[k - 1].count
    THEN RankAt(sorted, k - 1)
    ELSE k

\* transform_window(rank='rank(count)', sort=[count descending]): every entry
\* gets its rank; the entries themselves stay in place.
transform_window(entries) ==
    LET sorted == SortByCountDesc(entries)
    IN  [i \in 1..Len(entries) |->
           [entries[i] EXCEPT !.rank =
               RankAt(sorted, CHOOSE k \in 1..Len(sorted) :
                                  sorted[k].group = entries[i].group)]]

\* A filter with the comparison turned round.
transform_filter_flipped(entries, n) ==
    SelectSeq(entries, LAMBDA e : e.rank > n)

\* transform_filter(alt.datum.rank < top_n).
transform_filter(entries, n) ==
    SelectSeq(entries, LAMBDA e : e.rank < n)

\* generate_barplot(results, count_column, top_n): the bars, in the order of
\* the y axis (sort='-x').  It raises nothing for any top_n.
generate_barplot(frame, col, n) ==
    [status |-> "ok",
     bars |-> SortByCountDesc(
                  transform_filter(
                      transform_window(transform_aggregate(frame.rows, col)), n))]

NoChart == [status |-> "none", bars |-> <<>>]

-----------------------------------------------------------------------------
(* Inputs tried by the callers *)

\* top_n values handed to generate_barplot: -1, 0, 1, ...
TopNChoices == (0 - 1)..MaxTopN

\* The top_n the page passes: generate_barplot(results, "journal", 10).
AppTopN == 10

\* Result sets for the chart: rows with few titles, so that groups repeat.
BarRows == [title_e : {<<"A", "b">>, <<"a", ".">>}, journal : Journals]
BarFiles == SeqsUpTo(BarRows, MaxResults)

\* Text typed into the search box of the page.
Queries == {<<>>, <<"a">>, <<".">>, <<"(">>}

\* Corpus files the page is run on.
SampleFiles ==
    { << [title_e |-> <<"A", "b">>, journal |-> <<"N">>],
         [title_e |-> <<>>,         journal |-> <<"S">>] >>,
      << [title_e |-> <<"a", ".">>, journal |-> <<>>],
         [title_e |-> <<"b", "(">>, journal |-> <<"N">>] >> }

Scripts == {"app.py", "streamlit_app.py"}

\* DATA_FILEPATH of each script.
DataFilePath(sc) == IF sc = "app.py" THEN DATA_FILEPATH ELSE "abc.tsv"

Sessions == 1..NumSessions

IdleSession == [pc |-> "idle", value |-> NoFrame, got |-> NoFrame, loads |-> 0]

NoHist == [calls |-> 0, failed |-> 0, parses |-> 0, runs |-> 0,
           searches |-> 0, rebinds |-> 0, searched |-> NoFrame]

\* The spiral chart's DataFrame: columns x, y, idx, rand, num_points rows.
SpiralFrame(num_points) ==
    [columns |-> {"x", "y", "idx", "rand"},
     rows |-> [i \in 1..num_points |-> [index |-> i - 1]]]

-----------------------------------------------------------------------------
(* search_dataframe called once on a loaded table *)

InitSearch ==
    /\ file \in Files
    /\ cache = <<>>
    /\ script = "app.py"
    /\ df = load_data(file)
    /\ column = "title_e"
    /\ search_str = <<>>
    /\ results = NoResult
    /\ count_column = "journal"
    /\ top_n = AppTopN
    /\ chart = NoChart
    /\ pc = "start"
    /\ submit_button = FALSE
    /\ sess = [s \in Sessions |-> IdleSession]
    /\ hist = NoHist

SearchCall ==
    /\ pc = "start"
    /\ \E col \in Columns \cup {AbsentColumn}, s \in Patterns :
          /\ column' = col
          /\ search_str' = s
          /\ results' = search_dataframe(df, col, s)
          /\ hist' = [hist EXCEPT !.calls = @ + 1, !.searched = df]
    /\ pc' = "done"
    /\ UNCHANGED <<file, cache, script, df, count_column, top_n, chart,
                   submit_button, sess>>

NextSearch == SearchCall

SpecSearch == InitSearch /\ [][NextSearch]_vars

-----------------------------------------------------------------------------
(* A caller making several search calls on one table *)

InitCalls ==
    /\ InitSearch
    /\ pc = "start"

Call ==
    /\ hist.calls < MaxCalls
    /\ \E col \in Columns \cup {AbsentColumn}, s \in Queries :
          /\ column' = col
          /\ search_str' = s
          /\ results' = search_dataframe(df, col, s)
          /\ hist' = [hist EXCEPT !.calls = @ + 1,
                                  !.failed = IF results'.status = "KeyError"
                                             THEN @ + 1 ELSE @,
                                  !.searched = df]
    /\ UNCHANGED <<file, cache, script, df, count_column, top_n, chart, pc,
                   submit_button, sess>>

NextCalls == Call

SpecCalls == InitCalls /\ [][NextCalls]_vars

-----------------------------------------------------------------------------
(* generate_barplot called once on a result set *)

InitTopN ==
    /\ file \in BarFiles
    /\ cache = <<>>
    /\ script = "app.py"
    /\ df = load_data(file)
    /\ column = "title_e"
    /\ search_str = <<>>
    /\ results = search_dataframe(df, "title_e", <<>>)
    /\ count_column = "journal"
    /\ top_n = AppTopN
    /\ chart = NoChart
    /\ pc = "start"
    /\ submit_button = TRUE
    /\ sess = [s \in Sessions |-> IdleSession]
    /\ hist = NoHist

Barplot ==
    /\ pc = "start"
    /\ \E col \in Columns, n \in TopNChoices :
          /\ count_column' = col
          /\ top_n' = n
          /\ chart' = generate_barplot(results.frame, col, n)
    /\ pc' = "done"
    /\ UNCHANGED <<file, cache, script, df, column, search_str, results,
                   submit_button, sess, hist>>

NextTopN == Barplot

SpecTopN == InitTopN /\ [][NextTopN]_vars

-----------------------------------------------------------------------------
(* load_data behind @st.cache, called by several sessions at once.  The     *)
(* wrapper looks the key up, on a miss calls the function, then stores the *)
(* value; nothing is held between the three steps.                         *)

InitLoad ==
    /\ file \in SampleFiles
    /\ cache = <<>>
    /\ script \in Scripts
    /\ df = NoFrame
    /\ column = "title_e"
    /\ search_str = <<>>
    /\ results = NoResult
    /\ count_column = "journal"
    /\ top_n = AppTopN
    /\ chart = NoChart
    /\ pc = "idle"
    /\ submit_button = FALSE
    /\ sess = [s \in Sessions |-> IdleSession]
    /\ hist = NoHist

UnchangedByLoad ==
    UNCHANGED <<file, script, df, column, search_str, results, count_column,
                top_n, chart, pc, submit_button>>

\* A session's script reaches df = load_data(DATA_FILEPATH).
CallLoad(s) ==
    /\ sess[s].pc = "idle"
    /\ sess[s].loads < MaxLoads
    /\ sess' = [sess EXCEPT ![s].pc = "lookup", ![s].loads = @ + 1]
    /\ UNCHANGED <<cache, hist>>
    /\ UnchangedByLoad

\* The key is in the cache: the cached table is returned.
CacheHit(s) ==
    /\ sess[s].pc = "lookup"
    /\ DataFilePath(script) \in DOMAIN cache
    /\ sess' = [sess EXCEPT ![s].pc = "idle",
                            ![s].got = cache[DataFilePath(script)]]
    /\ UNCHANGED <<cache, hist>>
    /\ UnchangedByLoad

\* The key is not in the cache: the function will be called.
CacheMiss(s) ==
    /\ sess[s].pc = "lookup"
    /\ DataFilePath(script) \notin DOMAIN cache
    /\ sess' = [sess EXCEPT ![s].pc = "compute"]
    /\ UNCHANGED <<cache, hist>>
    /\ UnchangedByLoad

\* The body of load_data runs: the file is parsed.
Compute(s) ==
    /\ sess[s].pc = "compute"
    /\ sess' = [sess EXCEPT ![s].pc = "write", ![s].value = load_data(file)]
    /\ hist' = [hist EXCEPT !.parses = @ + 1]
    /\ UNCHANGED cache
    /\ UnchangedByLoad

\* The value is stored under the key and returned.
CacheWrite(s) ==
    /\ sess[s].pc = "write"
    /\ cache' = (DataFilePath(script) :> sess[s].value) @@ cache
    /\ sess' = [sess EXCEPT ![s].pc = "idle", ![s].got = sess[s].value,
                            ![s].value = NoFrame]
    /\ UNCHANGED hist
    /\ UnchangedByLoad

NextLoad ==
    \E s \in Sessions :
        \/ CallLoad(s)
        \/ CacheHit(s)
        \/ CacheMiss(s)
        \/ Compute(s)
        \/ CacheWrite(s)

SpecLoad == InitLoad /\ [][NextLoad]_vars

-----------------------------------------------------------------------------
(* The script runs of one session: every interaction runs the script from   *)
(* the top, in a fresh namespace.                                           *)

InitRun == InitLoad

UnchangedByRun == UNCHANGED <<file, script, count_column, top_n, sess>>

\* The user interacts: the script starts again, with the widgets' values.
StartRun ==
    /\ pc = "idle"
    /\ hist.runs < MaxRuns
    /\ \E b \in BOOLEAN, q \in Queries :
          /\ submit_button' = b
          /\ search_str' = q
    /\ df' = NoFrame
    /\ results' = NoResult
    /\ chart' = NoChart
    /\ column' = "title_e"
    /\ pc' = "load"
    /\ hist' = [hist EXCEPT !.runs = @ + 1]
    /\ UNCHANGED cache
    /\ UnchangedByRun

\* df = load_data(DATA_FILEPATH), the table already cached.
LoadCached ==
    /\ pc = "load"
    /\ DataFilePath(script) \in DOMAIN cache
    /\ df' = cache[DataFilePath(script)]
    /\ pc' = "form"
    /\ UNCHANGED <<cache, column, search_str, results, chart, submit_button, hist>>
    /\ UnchangedByRun

\* df = load_data(DATA_FILEPATH), the first time: parse and store.
LoadFresh ==
    /\ pc = "load"
    /\ DataFilePath(script) \notin DOMAIN cache
    /\ df' = load_data(file)
    /\ cache' = (DataFilePath(script) :> load_data(file)) @@ cache
    /\ hist' = [hist EXCEPT !.parses = @ + 1]
    /\ pc' = "form"
    /\ UNCHANGED <<column, search_str, results, chart, submit_button>>
    /\ UnchangedByRun

\* if submit_button: the search, the table of hits and (app.py) the chart.
\* An exception raised by the search ends the run.
RunSearch ==
    /\ pc = "form"
    /\ submit_button
    /\ results' = search_dataframe(df, "title_e", search_str)
    /\ hist' = [hist EXCEPT !.searches = @ + 1, !.searched = df]
    /\ chart' = IF results'.status = "ok" /\ script = "app.py"
                THEN generate_barplot(results'.frame, "journal", AppTopN)
                ELSE NoChart
    /\ pc' = IF results'.status = "ok" THEN "widgets" ELSE "idle"
    /\ UNCHANGED <<cache, df, column, search_str, submit_button>>
    /\ UnchangedByRun

\* The button was not pressed: the block is skipped.
SkipSearch ==
    /\ pc = "form"
    /\ ~submit_button
    /\ pc' = "widgets"
    /\ UNCHANGED <<cache, df, column, search_str, results, chart,
                   submit_button, hist>>
    /\ UnchangedByRun

\* A spiral block that writes the chart's table into the cached object.
BuildSpiralInPlace ==
    /\ pc = "widgets"
    /\ \E num_points \in 1..MaxPoints :
          /\ df' = SpiralFrame(num_points)
          /\ cache' = (DataFilePath(script) :> SpiralFrame(num_points)) @@ cache
    /\ hist' = [hist EXCEPT !.rebinds = @ + 1]
    /\ pc' = "idle"
    /\ UNCHANGED <<column, search_str, results, chart, submit_button>>
    /\ UnchangedByRun

\* The rest of the page: df = pd.DataFrame({...}) binds the name df to the
\* spiral chart's table, and the run ends.
BuildSpiral ==
    /\ pc = "widgets"
    /\ \E num_points \in 1..MaxPoints : df' = SpiralFrame(num_points)
    /\ hist' = [hist EXCEPT !.rebinds = @ + 1]
    /\ pc' = "idle"
    /\ UNCHANGED <<cache, column, search_str, results, chart, submit_button>>
    /\ UnchangedByRun

NextRun ==
    \/ StartRun
    \/ LoadCached
    \/ LoadFresh
    \/ RunSearch
    \/ SkipSearch
    \/ BuildSpiral

SpecRun == InitRun /\ [][NextRun]_vars

-----------------------------------------------------------------------------
(* Properties *)

\* s occurs in t as a run of consecutive characters.
IsSubstring(s, t) ==
    \E i \in 1..(Len(t) - Len(s) + 1) : SubSeq(t, i, i + Len(s) - 1) = s

\* The index labels of the rows a call returned.
ReturnedLabels == {results.frame.rows[k].index : k \in 1..Len(results.frame.rows)}

Min(a, b) == IF a <= b THEN a ELSE b

\* The distinct values of count_column in the result set.
GroupsOf(rows, col) == {rows[k][col] : k \in 1..Len(rows)}

\* Where a value first occurs in the result set.
FirstPos(rows, col, g) ==
    CHOOSE k \in 1..Len(rows) :
        /\ rows[k][col] = g
        /\ \A j \in 1..(k - 1) : rows[j][col] # g

\* C1 (as claimed): on an existing column every search string gives exactly
\* the rows whose case-folded value holds the case-folded search string as a
\* literal substring.
C1_LiteralSubstring ==
    (pc = "done" /\ column \in Columns) =>
        /\ results.status = "ok"
        /\ \A i \in 1..Len(df.rows) :
              df.rows[i].index \in ReturnedLabels
                  <=> IsSubstring(CaseFold(search_str), CaseFold(df.rows[i][column]))

\* C5: on an existing column the empty search string returns every row of
\* the table, in the table's order, rows with an empty value included.
C5_EmptySearchReturnsAll ==
    (pc = "done" /\ column \in Columns /\ search_str = <<>>) =>
        /\ results.status = "ok"
        /\ results.frame.rows = df.rows
        /\ Len(results.frame.rows) = Len(file)

C5_Witness ==
    /\ pc = "done"
    /\ column \in Columns
    /\ search_str = <<>>
    /\ Len(df.rows) = 2
    /\ df.rows[1][column] = <<>>
    /\ df.rows[2][column] # <<>>
    /\ results.frame.rows = df.rows

\* C6: the rows a search returns are rows of the table, each at most once,
\* in the table's order.
C6_Subsequence ==
    (pc = "done" /\ results.status = "ok") =>
        LET rows == results.frame.rows
        IN  /\ \A k \in 1..Len(rows) :
                  /\ rows[k].index + 1 \in 1..Len(df.rows)
                  /\ rows[k] = df.rows[rows[k].index + 1]
            /\ \A j, k \in 1..Len(rows) : j < k => rows[j].index < rows[k].index

C6_Witness ==
    /\ pc = "done"
    /\ results.status = "ok"
    /\ search_str # <<>>
    /\ Len(results.frame.rows) = 2
    /\ results.frame.rows[1] # results.frame.rows[2]

\* C8: a search on a column the table does not have fails with KeyError and
\* gives no rows; no call changes the table; and a search on an existing
\* column gives exactly the matching rows, whatever failed before it.
C8_UnknownColumn ==
    /\ df = fillna(read_csv(file))
    /\ (hist.calls > 0 /\ column \notin Columns) =>
           results = [status |-> "KeyError", frame |-> NoFrame]
    /\ (hist.calls > 0 /\ column \in Columns /\ ValidPattern(search_str)) =>
           /\ results.status = "ok"
           /\ \A i \in 1..Len(df.rows) :
                 df.rows[i].index \in ReturnedLabels
                     <=> re_search(search_str, df.rows[i][column])

C8_Witness ==
    /\ hist.failed >= 1
    /\ column \in Columns
    /\ results.status = "ok"
    /\ Len(results.frame.rows) >= 1
    /\ Len(results.frame.rows) < Len(df.rows)

\* C2 (as claimed): with top_n >= 1 the chart has exactly
\* min(top_n, number of distinct groups) entries, so never more than top_n.
C2_ExactlyMinEntries ==
    (pc = "done" /\ top_n >= 1) =>
        Len(chart.bars) =
            Min(top_n, Cardinality(GroupsOf(results.frame.rows, count_column)))

C9_ParsedAtMostOnce ==
    /\ hist.parses <= 1
    /\ Cardinality(DOMAIN cache) <= 1
    /\ \A s, t \in Sessions :
          (sess[s].got # NoFrame /\ sess[t].got # NoFrame) => sess[s].got = sess[t].got

\* C10: a search happens only in a run whose button was pressed, on the
\* table load_data gave that run, which is the parsed corpus; and once the
\* corpus is cached no step, the rebinding of df included, changes it.
C10_SearchOnCorpus ==
    [][ /\ hist'.searches # hist.searches =>
              /\ submit_button
              /\ hist'.searched = cache[DataFilePath(script)]
              /\ hist'.searched = fillna(read_csv(file))
        /\ DataFilePath(script) \in DOMAIN cache =>
              /\ cache' = cache
              /\ cache[DataFilePath(script)] = fillna(read_csv(file)) ]_vars

C10_Witness ==
    /\ hist.rebinds >= 1
    /\ hist.searches >= 1
    /\ pc = "widgets"
    /\ submit_button
    /\ results.status = "ok"
    /\ Len(results.frame.rows) >= 1
    /\ df = cache[DataFilePath(script)]

====
